---- MODULE Spec2Model ----
(***************************************************************************)
(* Anomaly-detection ensemble of backend/app/ml/anomaly:                   *)
(*   rules_engine.py      RulesBasedDetector (baseline statistics, rules)  *)
(*   stl_detector.py      STLAnomalyDetector (residual z-scores)           *)
(*   ensemble_detector.py EnsembleAnomalyDetector (fit, detect, merger)    *)
(*                                                                         *)
(* Floating-point numbers are modelled as exact extended rationals         *)
(* [num, den]: den > 0 is a finite value in lowest terms, den = 0 is       *)
(* +inf (num = 1), -inf (num = -1) or NaN (num = 0).  A standard deviation *)
(* or z-score, which is a square root, is carried as a sign and a square.  *)
(* Timestamps are minutes since Monday 00:00.                              *)
(***************************************************************************)
EXTENDS Integers, Sequences, FiniteSets, TLC

VARIABLES
    historical_stats,   \* RulesBasedDetector.historical_stats: sede -> stats
    is_fitted,          \* EnsembleAnomalyDetector.is_fitted
    min_consensus,      \* EnsembleAnomalyDetector.min_consensus
    stl_detector,       \* TRUE iff EnsembleAnomalyDetector.stl_detector is not None
    isolation_forest,   \* TRUE iff EnsembleAnomalyDetector.isolation_forest is loaded
    call,               \* the last call made on the detector, with its arguments
    all_anomalies,      \* detector name -> candidate list, as handed to the merger
    result,             \* what the last call returned
    refit,              \* a compute_historical_stats call in progress on a thread
    scan,               \* a detection call in progress on another thread
    last                \* the call before this one: its arguments and what it returned

vars == <<historical_stats, is_fitted, min_consensus, stl_detector,
          isolation_forest, call, all_anomalies, result, refit, scan, last>>

-----------------------------------------------------------------------------
(* Extended rational arithmetic (the float semantics of numpy).            *)

Abs(x) == IF x < 0 THEN -x ELSE x

Sign(x) == IF x < 0 THEN -1 ELSE IF x > 0 THEN 1 ELSE 0

RECURSIVE Gcd(_, _)
Gcd(a, b) == IF b = 0 THEN a ELSE Gcd(b, a % b)

Rat(n, d) ==
    IF d = 0 THEN [num |-> Sign(n), den |-> 0]
    ELSE LET g == Gcd(Abs(n), Abs(d))
             s == Sign(d)
         IN  [num |-> (s * n) \div g, den |-> (s * d) \div g]

Int2R(n) == [num |-> n, den |-> 1]

NaN == [num |-> 0, den |-> 0]

IsNaN(x) == x.num = 0 /\ x.den = 0

RNeg(a) == [num |-> -a.num, den |-> a.den]

RAdd(a, b) ==
    IF IsNaN(a) \/ IsNaN(b) THEN NaN
    ELSE IF a.den = 0 /\ b.den = 0 THEN Rat(a.num + b.num, 0)
    ELSE Rat(a.num * b.den + b.num * a.den, a.den * b.den)

RSub(a, b) == RAdd(a, RNeg(b))

RMul(a, b) == Rat(a.num * b.num, a.den * b.den)

\* x / 0 is +-inf (NaN for 0 / 0), as for numpy floats.
RDiv(a, b) ==
    IF b.num = 0 /\ b.den # 0 THEN Rat(a.num, 0)
    ELSE Rat(a.num * b.den * Sign(b.num), a.den * Abs(b.num))

\* Comparisons: every comparison with NaN is False, as in IEEE arithmetic.
RGt(a, b) == ~IsNaN(a) /\ ~IsNaN(b) /\ a.num * b.den > b.num * a.den

RGe(a, b) == ~IsNaN(a) /\ ~IsNaN(b) /\ a.num * b.den >= b.num * a.den

RLt(a, b) == RGt(b, a)

Zero == Int2R(0)

\* Python's max(0, x): x when x > 0, else 0 (also when x is NaN).
Max0(x) == IF RGt(x, Zero) THEN x ELSE Zero

\* Sums and concatenations split their sequence in halves, which keeps the
\* depth of the evaluation logarithmic in its length.
RECURSIVE SumRange(_, _, _)
SumRange(s, lo, hi) ==
    IF lo > hi THEN 0
    ELSE IF lo = hi THEN s[lo]
    ELSE LET mid == (lo + hi) \div 2
         IN  SumRange(s, lo, mid) + SumRange(s, mid + 1, hi)

SumSeq(s) == SumRange(s, 1, Len(s))

RECURSIVE RSumRange(_, _, _)
RSumRange(s, lo, hi) ==
    IF lo > hi THEN Zero
    ELSE IF lo = hi THEN s[lo]
    ELSE LET mid == (lo + hi) \div 2
         IN  RAdd(RSumRange(s, lo, mid), RSumRange(s, mid + 1, hi))

RSumSeq(s) == RSumRange(s, 1, Len(s))

\* pandas Series.mean() of integers: NaN for an empty selection.
Mean(s) == Rat(SumSeq(s), Len(s))

\* numpy.mean of a list of floats.
RMean(s) == RDiv(RSumSeq(s), Int2R(Len(s)))

\* pandas Series.std() (ddof = 1) as its square, the sample variance:
\* NaN for fewer than two samples.
Variance(s) ==
    LET n == Len(s)
        S == SumSeq(s)
        Q == SumSeq([i \in 1..n |-> s[i] * s[i]])
    IN  IF n < 2 THEN NaN ELSE Rat(n * Q - S * S, n * (n - 1))

\* A z-score (x - mean) / std, carried as the sign of x - mean and the
\* square (x - mean)^2 / variance.
ZScore(x, mean, var) ==
    LET d == RSub(x, mean)
    IN  [sgn |-> IF IsNaN(d) \/ IsNaN(var) THEN 0 ELSE d.num,
         sq  |-> RDiv(RMul(d, d), var)]

\* z >= t for a threshold t >= 0 given as a rational.
ZGe(z, t) == (z.sgn > 0 \/ (z.sgn = 0 /\ t = Zero)) /\ RGe(z.sq, RMul(t, t))

\* abs(z) >= t
ZAbsGe(z, t) == RGe(z.sq, RMul(t, t))

RECURSIVE FlattenRange(_, _, _)
FlattenRange(ss, lo, hi) ==
    IF lo > hi THEN <<>>
    ELSE IF lo = hi THEN ss[lo]
    ELSE LET mid == (lo + hi) \div 2
         IN  FlattenRange(ss, lo, mid) \o FlattenRange(ss, mid + 1, hi)

Flatten(ss) == FlattenRange(ss, 1, Len(ss))

Range(s) == {s[i] : i \in DOMAIN s}

\* The distinct values of a sequence in order of first appearance
\* (pandas unique(), dict insertion order).
RECURSIVE UniqueRange(_, _, _)
UniqueRange(s, lo, hi) ==
    IF lo > hi THEN <<>>
    ELSE IF lo = hi THEN <<s[lo]>>
    ELSE LET mid == (lo + hi) \div 2
             left == UniqueRange(s, lo, mid)
         IN  left \o SelectSeq(UniqueRange(s, mid + 1, hi),
                               LAMBDA x : x \notin Range(left))

Unique(s) == UniqueRange(s, 1, Len(s))

\* The order of Python tuples of two numbers.
KeyLess(x, y) == x[1] < y[1] \/ (x[1] = y[1] /\ x[2] < y[2])

\* A stable sort of s by the keys key[i]: each element goes to the position
\* given by the number of elements that precede it.
StableSort(s, key) ==
    LET n == Len(s)
        rank == [i \in 1..n |->
                    Cardinality({j \in 1..n :
                        \/ KeyLess(key[j], key[i])
                        \/ ~KeyLess(key[i], key[j]) /\ j < i}) + 1]
        at == [k \in 1..n |-> CHOOSE i \in 1..n : rank[i] = k]
    IN  IF \A i \in 1..(n - 1) : ~KeyLess(key[i + 1], key[i]) THEN s
        ELSE [k \in 1..n |-> s[at[k]]]

-----------------------------------------------------------------------------
(* rules_engine.py                                                         *)

Severities == <<"low", "medium", "high", "critical">>

\* severity_order.index(severity)
SeverityIdx(sev) == CHOOSE i \in 1..4 : Severities[i] = sev

Pct(n) == Rat(n, 100)

\* ANOMALY_RULES: the fields the checks read.
ANOMALY_RULES ==
    [off_hours_usage |->
        [hours |-> {22, 23, 0, 1, 2, 3, 4, 5},
         threshold_multiplier |-> Pct(35),
         severity_thresholds |->
            [low |-> Pct(35), medium |-> Pct(50), high |-> Pct(75), critical |-> Pct(100)]],
     weekend_anomaly |->
        [days |-> {5, 6},
         threshold_multiplier |-> Pct(40),
         severity_thresholds |->
            [low |-> Pct(40), medium |-> Pct(60), high |-> Pct(80), critical |-> Pct(100)]],
     consumption_spike |->
        [z_score_threshold |-> Int2R(3),
         min_deviation_pct |-> Int2R(50),
         severity_thresholds |->
            [low |-> Int2R(3), medium |-> Int2R(4), high |-> Int2R(5), critical |-> Int2R(6)]],
     low_occupancy_high_consumption |->
        [occupancy_threshold |-> Int2R(30),
         consumption_multiplier |-> Pct(70),
         severity_thresholds |->
            [low |-> Pct(70), medium |-> Pct(85), high |-> Pct(100), critical |-> Pct(120)]],
     holiday_consumption |->
        [threshold_multiplier |-> Pct(30),
         severity_thresholds |->
            [low |-> Pct(30), medium |-> Pct(45), high |-> Pct(60), critical |-> Pct(80)]],
     academic_vacation_high |->
        [threshold_multiplier |-> Pct(40),
         periods |-> {"vacaciones_fin", "vacaciones_mitad", "vacaciones"},
         severity_thresholds |->
            [low |-> Pct(40), medium |-> Pct(55), high |-> Pct(70), critical |-> Pct(85)]]]

\* A deviation ratio in the form of a z-score (sign and square), so that one
\* get_severity serves the ratio rules and the spike rule.
RatioZ(r) == [sgn |-> r.num, sq |-> RMul(r, r)]

\* z_score = None
NoZ == [sgn |-> 0, sq |-> NaN]

\* A severity assignment whose cutoffs are exclusive.
get_severity_above(deviation_ratio, thresholds) ==
    LET Above(t) == ZGe(deviation_ratio, t) /\ deviation_ratio.sq # RMul(t, t)
    IN  IF Above(thresholds.critical) THEN "critical"
        ELSE IF Above(thresholds.high) THEN "high"
        ELSE IF Above(thresholds.medium) THEN "medium"
        ELSE "low"

\* RulesBasedDetector._get_severity
get_severity(deviation_ratio, thresholds) ==
    IF ZGe(deviation_ratio, thresholds.critical) THEN "critical"
    ELSE IF ZGe(deviation_ratio, thresholds.high) THEN "high"
    ELSE IF ZGe(deviation_ratio, thresholds.medium) THEN "medium"
    ELSE "low"

\* DetectedAnomaly(...); a check returns <<>> for None and <<anomaly>> otherwise.
DetectedAnomaly(row, type, severity, expected, deviation_pct, savings, z) ==
    [timestamp |-> row.timestamp,
     sede |-> row.sede,
     sector |-> "total",
     anomaly_type |-> type,
     severity |-> severity,
     actual_value |-> Int2R(row.energia_total_kwh),
     expected_value |-> expected,
     deviation_pct |-> deviation_pct,
     recommendation |-> type,
     potential_savings_kwh |-> savings,
     z_score |-> z]

\* An off-hours check that fires from the threshold on.
check_off_hours_from(row, stats) ==
    LET rule == ANOMALY_RULES.off_hours_usage
        expected == stats.non_working_mean
        threshold == RMul(stats.working_hours_mean, rule.threshold_multiplier)
        actual == Int2R(row.energia_total_kwh)
    IN  IF row.hora \notin rule.hours THEN <<>>
        ELSE IF RGe(actual, threshold) THEN
            LET deviation_pct == RMul(RDiv(RSub(actual, threshold), threshold), Int2R(100))
                deviation_ratio == RDiv(actual, stats.working_hours_mean)
            IN  <<DetectedAnomaly(row, "off_hours_usage",
                    get_severity(RatioZ(deviation_ratio), rule.severity_thresholds),
                    expected, deviation_pct, RSub(actual, expected), NoZ)>>
        ELSE <<>>

\* RulesBasedDetector._check_off_hours
check_off_hours(row, stats) ==
    LET rule == ANOMALY_RULES.off_hours_usage
        expected == stats.non_working_mean
        threshold == RMul(stats.working_hours_mean, rule.threshold_multiplier)
        actual == Int2R(row.energia_total_kwh)
    IN  IF row.hora \notin rule.hours THEN <<>>
        ELSE IF RGt(actual, threshold) THEN
            LET deviation_pct == RMul(RDiv(RSub(actual, threshold), threshold), Int2R(100))
                deviation_ratio == RDiv(actual, stats.working_hours_mean)
            IN  <<DetectedAnomaly(row, "off_hours_usage",
                    get_severity(RatioZ(deviation_ratio), rule.severity_thresholds),
                    expected, deviation_pct, RSub(actual, expected), NoZ)>>
        ELSE <<>>

\* RulesBasedDetector._check_weekend
check_weekend(row, stats) ==
    LET rule == ANOMALY_RULES.weekend_anomaly
        expected == stats.weekend_mean
        threshold == RMul(stats.weekday_mean, rule.threshold_multiplier)
        actual == Int2R(row.energia_total_kwh)
    IN  IF row.dia_semana \notin rule.days THEN <<>>
        ELSE IF RGt(actual, threshold) THEN
            LET deviation_pct == RMul(RDiv(RSub(actual, threshold), threshold), Int2R(100))
                deviation_ratio == RDiv(actual, stats.weekday_mean)
            IN  <<DetectedAnomaly(row, "weekend_anomaly",
                    get_severity(RatioZ(deviation_ratio), rule.severity_thresholds),
                    expected, deviation_pct, RSub(actual, expected), NoZ)>>
        ELSE <<>>

\* RulesBasedDetector._check_spike; stats.std is carried as the variance.
check_spike(row, stats) ==
    LET rule == ANOMALY_RULES.consumption_spike
        mean == stats.mean
        actual == Int2R(row.energia_total_kwh)
        z_score == ZScore(actual, mean, stats.std)
        deviation_pct == RMul(RDiv(RSub(actual, mean), mean), Int2R(100))
    IN  IF stats.std = Zero THEN <<>>
        ELSE IF ZGe(z_score, rule.z_score_threshold)
                /\ RGe(deviation_pct, rule.min_deviation_pct) THEN
            <<DetectedAnomaly(row, "consumption_spike",
                get_severity(z_score, rule.severity_thresholds),
                mean, deviation_pct, RSub(actual, mean), z_score)>>
        ELSE <<>>

\* RulesBasedDetector._check_low_occupancy; a missing ocupacion_pct is NaN.
check_low_occupancy(row, stats) ==
    LET rule == ANOMALY_RULES.low_occupancy_high_consumption
        occupancy == row.ocupacion_pct
        expected == RMul(stats.mean, RDiv(occupancy, Int2R(100)))
        threshold == RMul(stats.mean, rule.consumption_multiplier)
        actual == Int2R(row.energia_total_kwh)
    IN  IF IsNaN(occupancy) THEN <<>>
        ELSE IF RGe(occupancy, rule.occupancy_threshold) THEN <<>>
        ELSE IF RGt(actual, threshold) THEN
            LET deviation_pct ==
                    IF RGt(expected, Zero)
                    THEN RMul(RDiv(RSub(actual, expected), expected), Int2R(100))
                    ELSE Int2R(100)
                deviation_ratio == RDiv(actual, stats.mean)
            IN  <<DetectedAnomaly(row, "low_occupancy_high_consumption",
                    get_severity(RatioZ(deviation_ratio), rule.severity_thresholds),
                    expected, deviation_pct, RSub(actual, expected), NoZ)>>
        ELSE <<>>

\* RulesBasedDetector._check_holiday
check_holiday(row, stats) ==
    LET rule == ANOMALY_RULES.holiday_consumption
        expected == RMul(stats.mean, rule.threshold_multiplier)
        actual == Int2R(row.energia_total_kwh)
    IN  IF ~row.es_festivo THEN <<>>
        ELSE IF RGt(actual, expected) THEN
            LET deviation_pct == RMul(RDiv(RSub(actual, expected), expected), Int2R(100))
                deviation_ratio == RDiv(actual, stats.mean)
            IN  <<DetectedAnomaly(row, "holiday_consumption",
                    get_severity(RatioZ(deviation_ratio), rule.severity_thresholds),
                    expected, deviation_pct, RSub(actual, expected), NoZ)>>
        ELSE <<>>

\* RulesBasedDetector._check_vacation
check_vacation(row, stats) ==
    LET rule == ANOMALY_RULES.academic_vacation_high
        expected == RMul(stats.mean, rule.threshold_multiplier)
        actual == Int2R(row.energia_total_kwh)
    IN  IF row.periodo_academico \notin rule.periods THEN <<>>
        ELSE IF RGt(actual, expected) THEN
            LET deviation_pct == RMul(RDiv(RSub(actual, expected), expected), Int2R(100))
                deviation_ratio == RDiv(actual, stats.mean)
            IN  <<DetectedAnomaly(row, "academic_vacation_high",
                    get_severity(RatioZ(deviation_ratio), rule.severity_thresholds),
                    expected, deviation_pct, RSub(actual, expected), NoZ)>>
        ELSE <<>>

\* The sector columns compute_historical_stats looks for, in its order.
SectorNames == <<"comedor", "salones", "laboratorios", "auditorios", "oficinas">>

\* df['sede'].unique()
Sedes(df) == Unique([i \in DOMAIN df |-> df[i].sede])

\* df[df['sede'] == sede]
SedeRows(df, sede) == SelectSeq(df, LAMBDA r : r.sede = sede)

Energy(rows) == [i \in DOMAIN rows |-> rows[i].energia_total_kwh]

\* The overall statistics compute_historical_stats assigns to
\* historical_stats[sede]; std is carried as the variance.  The entries no
\* detection reads (median, p95, p99, hourly_mean, hourly_std, daily_mean)
\* are left out.
OverallStats(sede_df) ==
    [mean |-> Mean(Energy(sede_df)),
     std |-> Variance(Energy(sede_df)),
     working_hours_mean |->
        Mean(Energy(SelectSeq(sede_df, LAMBDA r : r.hora >= 7 /\ r.hora <= 18))),
     non_working_mean |->
        Mean(Energy(SelectSeq(sede_df, LAMBDA r : r.hora < 7 \/ r.hora > 18))),
     weekend_mean |->
        Mean(Energy(SelectSeq(sede_df, LAMBDA r : r.dia_semana \in {5, 6}))),
     weekday_mean |->
        Mean(Energy(SelectSeq(sede_df, LAMBDA r : r.dia_semana \notin {5, 6}))),
     sector |-> <<>>]

\* The f'{sector}_mean' and f'{sector}_std' entries of one sector column.
SectorStats(sede_df, sector) ==
    LET col == [i \in DOMAIN sede_df |-> sede_df[i].sector[sector]]
    IN  [mean |-> Mean(col), std |-> Variance(col)]

\* The sector columns present in the data frame.
Columns(sede_df) == IF sede_df = <<>> THEN {} ELSE DOMAIN sede_df[1].sector

\* The complete entry of one sede: the overall statistics, then the sector ones.
SedeStats(sede_df) ==
    [OverallStats(sede_df) EXCEPT !.sector =
        [c \in Columns(sede_df) \cap Range(SectorNames) |-> SectorStats(sede_df, c)]]

\* RulesBasedDetector.compute_historical_stats: the entries of the sedes of df
\* are assigned into the existing dictionary.
compute_historical_stats(stats, df) ==
    LET new == Range(Sedes(df))
    IN  [s \in DOMAIN stats \cup new |->
            IF s \in new THEN SedeStats(SedeRows(df, s)) ELSE stats[s]]

\* 'hora' in df.columns; an empty frame has every column.
HasHora(df) == df = <<>> \/ "hora" \in DOMAIN df[1]

\* compute_historical_stats raises: the KeyError of line 194 for the first
\* sede, before anything is assigned.
ComputeRaises(df) == ~HasHora(df)

\* RulesBasedDetector.detect raises: in the computation of lines 503-505, or
\* the KeyError of row['hora'] (line 259) at the first row of a sede that has
\* statistics.
DetectRaises(stats, df) ==
    IF DOMAIN stats = {} THEN ComputeRaises(df)
    ELSE ~HasHora(df) /\ \E s \in Range(Sedes(df)) : s \in DOMAIN stats

\* The six checks of batch mode on one row, failed checks dropped.
BatchChecks(row, stats) ==
    check_off_hours(row, stats) \o check_weekend(row, stats)
    \o check_spike(row, stats) \o check_low_occupancy(row, stats)
    \o check_holiday(row, stats) \o check_vacation(row, stats)

\* A minimum that leaves out the candidates of the threshold's own severity.
MinSeverityIdxAbove(severity_threshold) ==
    IF severity_threshold = "none" THEN 1 ELSE SeverityIdx(severity_threshold) + 1

\* min_severity_idx; severity_threshold "none" stands for None.
MinSeverityIdx(severity_threshold) ==
    IF severity_threshold = "none" THEN 1 ELSE SeverityIdx(severity_threshold)

\* RulesBasedDetector.detect, lines 507-538: the loop over the sedes of df
\* against the statistics `stats`.
DetectLoop(stats, df, severity_threshold) ==
    LET sedes == Sedes(df)
        PerSede(sede) ==
            IF sede \notin DOMAIN stats THEN <<>>
            ELSE LET sede_df == SedeRows(df, sede)
                 IN  Flatten([i \in DOMAIN sede_df |->
                        SelectSeq(BatchChecks(sede_df[i], stats[sede]),
                            LAMBDA a : SeverityIdx(a.severity)
                                         >= MinSeverityIdx(severity_threshold))])
    IN  Flatten([k \in DOMAIN sedes |-> PerSede(sedes[k])])

\* RulesBasedDetector.detect, lines 503-505: the statistics are computed from
\* df when the dictionary is empty.
StatsForDetect(stats, df) ==
    IF DOMAIN stats = {} THEN compute_historical_stats(stats, df) ELSE stats

\* RulesBasedDetector.detect: the returned list.
rules_detect(stats, df, severity_threshold) ==
    DetectLoop(StatsForDetect(stats, df), df, severity_threshold)

\* RulesBasedDetector.detect_for_record: the returned list.
detect_for_record_any(stats, record, sede) ==
    LET row == [record EXCEPT !.sede = sede]
        known == IF sede \in DOMAIN stats THEN sede ELSE CHOOSE s \in DOMAIN stats : TRUE
    IN  IF DOMAIN stats = {} THEN <<>>
        ELSE check_off_hours(row, stats[known]) \o check_weekend(row, stats[known])
             \o check_spike(row, stats[known]) \o check_low_occupancy(row, stats[known])
             \o check_holiday(row, stats[known])

detect_for_record(stats, record, sede) ==
    LET row == [record EXCEPT !.sede = sede]
    IN  IF sede \notin DOMAIN stats THEN <<>>
        ELSE check_off_hours(row, stats[sede]) \o check_weekend(row, stats[sede])
             \o check_spike(row, stats[sede]) \o check_low_occupancy(row, stats[sede])
             \o check_holiday(row, stats[sede])

\* RulesBasedDetector.to_dict_list: the dictionary of one anomaly.
ToDict(a) ==
    [timestamp |-> a.timestamp,
     sede |-> a.sede,
     sector |-> a.sector,
     anomaly_type |-> a.anomaly_type,
     severity |-> a.severity,
     actual_value |-> a.actual_value,
     expected_value |-> a.expected_value,
     deviation_pct |-> a.deviation_pct,
     recommendation |-> a.recommendation,
     potential_savings_kwh |-> a.potential_savings_kwh,
     z_score |-> a.z_score]

to_dict_list(anomalies) == [i \in DOMAIN anomalies |-> ToDict(anomalies[i])]

-----------------------------------------------------------------------------
(* ensemble_detector.py: the consensus merger                              *)

\* severity_order of the merger: low 0 .. critical 3; an unknown severity is 0.
SeverityRank(sev) ==
    IF sev = "critical" THEN 3 ELSE IF sev = "high" THEN 2
    ELSE IF sev = "medium" THEN 1 ELSE 0

\* The weights of __init__; weights.get(detector, 0.33).
Weight(detector) ==
    IF detector = "rules" THEN Rat(4, 10)
    ELSE IF detector \in {"stl", "isolation_forest"} THEN Rat(3, 10)
    ELSE Rat(33, 100)

\* A key that rounds the timestamp to the nearest hour.
TsKeyNearest(ts) == ((ts + 30) \div 60) * 60

\* ts.strftime('%Y-%m-%d %H:00') read back by pd.to_datetime: the start of the hour.
TsKey(ts) == (ts \div 60) * 60

\* Lines 234-245: every anomaly gets its detector's name written into it.
Tag(name, anomalies) ==
    [i \in DOMAIN anomalies |->
        [f \in DOMAIN anomalies[i] \cup {"detected_by"} |->
            IF f = "detected_by" THEN name ELSE anomalies[i][f]]]

\* The mapping after the grouping loop: a sequence of [name, anomalies]
\* in dictionary order.
Tagged(mapping) ==
    [k \in DOMAIN mapping |->
        [name |-> mapping[k].name, anomalies |-> Tag(mapping[k].name, mapping[k].anomalies)]]

AllTagged(mapping) ==
    Flatten([k \in DOMAIN mapping |-> Tagged(mapping)[k].anomalies])

\* The keys of grouped, sede by sede, in insertion order.
GroupKeys(tagged) ==
    LET sedes == Unique([i \in DOMAIN tagged |-> tagged[i].sede])
        KeysOf(sede) ==
            LET mine == SelectSeq(tagged, LAMBDA a : a.sede = sede)
            IN  Unique([i \in DOMAIN mine |-> <<sede, TsKey(mine[i].timestamp)>>])
    IN  Flatten([k \in DOMAIN sedes |-> KeysOf(sedes[k])])

\* grouped[sede][ts_key]
Group(tagged, key) ==
    SelectSeq(tagged, LAMBDA a : a.sede = key[1] /\ TsKey(a.timestamp) = key[2])

\* A merger that takes the severity of the first anomaly of the group.
HighestSeverityFirst(group) == group[1].severity

\* max(anomalies_group, key = severity rank)['severity']: the first of the
\* highest rank.
HighestSeverity(group) ==
    LET top == CHOOSE i \in DOMAIN group :
                /\ \A j \in DOMAIN group :
                        SeverityRank(group[j].severity) <= SeverityRank(group[i].severity)
                /\ \A j \in 1..(i - 1) :
                        SeverityRank(group[j].severity) < SeverityRank(group[i].severity)
    IN  group[top].severity

\* Lines 274-278: the weight of each anomaly of the group is added.
EnsembleScore(group) ==
    RSumSeq([i \in DOMAIN group |-> Weight(group[i].detected_by)])

\* list(set(...)): a list of the elements of the set, each once, in the
\* order the interpreter gives them.
ListOf(S) == CHOOSE s \in [1..Cardinality(S) -> S] : Range(s) = S

\* A merger that lists the type of every anomaly of the group.
AllTypesOfGroup(group) == [i \in DOMAIN group |-> group[i].anomaly_type]

\* Line 271: all_types
AllTypes(group) == ListOf({group[i].anomaly_type : i \in DOMAIN group})

\* Lines 280-297.
MergedAnomaly(key, group) ==
    LET detectors == {group[i].detected_by : i \in DOMAIN group}
        all_types == AllTypes(group)
        avg_actual == RMean([i \in DOMAIN group |-> group[i].actual_value])
        avg_expected == RMean([i \in DOMAIN group |-> group[i].expected_value])
        avg_deviation == RMean([i \in DOMAIN group |-> group[i].deviation_pct])
    IN  [timestamp |-> key[2],
         sede |-> key[1],
         sector |-> "total",
         anomaly_type |-> IF Len(all_types) = 1 THEN all_types[1] ELSE "multi_type",
         anomaly_types |-> all_types,
         severity |-> HighestSeverity(group),
         actual_value |-> avg_actual,
         expected_value |-> avg_expected,
         deviation_pct |-> avg_deviation,
         recommendation |-> group[1].recommendation,
         potential_savings_kwh |-> Max0(RSub(avg_actual, avg_expected)),
         consensus |-> Cardinality(detectors),
         detected_by |-> ListOf(detectors),
         ensemble_score |-> EnsembleScore(group),
         detection_method |-> "ensemble"]

\* A merger that lets the anomalies of a single detector through whatever
\* min_consensus is.
MergeGroupSingles(key, group, min_cons) ==
    LET consensus == Cardinality({group[i].detected_by : i \in DOMAIN group})
    IN  IF consensus >= min_cons THEN <<MergedAnomaly(key, group)>>
        ELSE IF consensus = 1 THEN group
        ELSE <<>>

\* A merger that counts the anomalies of the group, not their detectors.
MergeGroupByCount(key, group, min_cons) ==
    IF Len(group) >= min_cons THEN <<MergedAnomaly(key, group)>>
    ELSE IF Len(group) = 1 /\ min_cons = 1 THEN group
    ELSE <<>>

\* Lines 250-303: what one group adds to merged.
MergeGroup(key, group, min_cons) ==
    LET consensus == Cardinality({group[i].detected_by : i \in DOMAIN group})
    IN  IF consensus >= min_cons THEN <<MergedAnomaly(key, group)>>
        ELSE IF consensus = 1 /\ min_cons = 1 THEN group
        ELSE <<>>

\* The sort key of lines 307-310.
SortKey(a) == <<a.timestamp, -SeverityRank(a.severity)>>

\* A sort by timestamp alone.
SortMergedByTs(s) == StableSort(s, [i \in DOMAIN s |-> <<s[i].timestamp, 0>>])

\* merged.sort(key = ...): a stable sort.
SortMerged(s) == StableSort(s, [i \in DOMAIN s |-> SortKey(s[i])])

\* EnsembleAnomalyDetector._merge_anomalies: the returned list.
merge_anomalies(mapping, min_cons) ==
    LET tagged == AllTagged(mapping)
        keys == GroupKeys(tagged)
    IN  SortMerged(Flatten([k \in DOMAIN keys |->
            MergeGroup(keys[k], Group(tagged, keys[k]), min_cons)]))

-----------------------------------------------------------------------------
(* stl_detector.py                                                         *)

\* STLAnomalyDetector.__init__: seasonal_period
SeasonalPeriod == 24

\* STLAnomalyDetector.__init__: residual_threshold
ResidualThreshold == Int2R(3)

\* sede_df.sort_values('timestamp')
SortByTs(s) == StableSort(s, [i \in DOMAIN s |-> <<s[i].timestamp, 0>>])

\* sede_df.set_index('timestamp')[target_col]
Series(sede_df) ==
    [i \in DOMAIN sede_df |->
        [timestamp |-> sede_df[i].timestamp, value |-> sede_df[i].energia_total_kwh]]

SeriesValues(series) == [i \in DOMAIN series |-> series[i].value]

SeqMin(s) == CHOOSE m \in Range(s) : \A x \in Range(s) : m <= x

SeqMax(s) == CHOOSE m \in Range(s) : \A x \in Range(s) : m >= x

\* statsmodels' STL(...).fit() is outside the repository.  Its result is an
\* additive decomposition, trend + seasonal + resid = series; the outcomes
\* modelled are a flat trend at the lowest ("min") or the highest ("max")
\* value of the series with no seasonal part, and a raised exception ("raise").
StlOutcomes == {"min", "max", "raise"}

StlFit(series, outcome) ==
    LET v == SeriesValues(series)
        level == IF outcome = "min" THEN SeqMin(v) ELSE SeqMax(v)
    IN  [trend |-> [i \in DOMAIN v |-> level],
         seasonal |-> [i \in DOMAIN v |-> 0],
         residual |-> [i \in DOMAIN v |-> v[i] - level]]

\* Lines 89-93 and 123-127: the identity fallback.
Fallback(series) ==
    [trend |-> SeriesValues(series),
     seasonal |-> [i \in DOMAIN series |-> 0],
     residual |-> [i \in DOMAIN series |-> 0]]

\* The guard of line 87.
TooShort(n) == n < SeasonalPeriod * 2

\* STLAnomalyDetector.decompose: the returned components.
decompose(series, outcome) ==
    IF TooShort(Len(series)) THEN Fallback(series)
    ELSE IF outcome = "raise" THEN Fallback(series)
    ELSE StlFit(series, outcome)

\* Tiers whose medium starts at the residual threshold.
StlSeverityWide(z) ==
    IF ZAbsGe(z, Int2R(5)) THEN "critical"
    ELSE IF ZAbsGe(z, Int2R(4)) THEN "high"
    ELSE IF ZAbsGe(z, Int2R(3)) THEN "medium"
    ELSE "low"

\* Lines 180-187.
StlSeverity(z) ==
    IF ZAbsGe(z, Int2R(5)) THEN "critical"
    ELSE IF ZAbsGe(z, Int2R(4)) THEN "high"
    ELSE IF ZAbsGe(z, Rat(7, 2)) THEN "medium"
    ELSE "low"

\* Lines 193-236: the dictionary appended for the sample at position i.
StlAnomaly(sede, series, components, z, i) ==
    LET actual == Int2R(series[i].value)
        expected == Int2R(components.trend[i] + components.seasonal[i])
        type == IF z.sgn > 0 THEN "consumption_spike" ELSE "consumption_drop"
    IN  [timestamp |-> series[i].timestamp,
         sede |-> sede,
         sector |-> "total",
         anomaly_type |-> type,
         severity |-> StlSeverity(z),
         actual_value |-> actual,
         expected_value |-> expected,
         deviation_pct |-> IF expected # Zero
                           THEN RMul(RDiv(RSub(actual, expected), expected), Int2R(100))
                           ELSE Zero,
         recommendation |-> type,
         potential_savings_kwh |-> Max0(RSub(actual, expected)),
         z_score |-> z,
         detection_method |-> "stl_decomposition",
         trend_value |-> Int2R(components.trend[i]),
         seasonal_value |-> Int2R(components.seasonal[i]),
         residual_value |-> Int2R(components.residual[i])]

\* Lines 151-236: the anomalies of one sede.
StlSede(df, sede, severity_threshold, outcome) ==
    LET sede_df == SortByTs(SedeRows(df, sede))
        series == Series(sede_df)
        components == decompose(series, outcome)
        residuals == components.residual
        residual_mean == Mean(residuals)
        residual_std == Variance(residuals)
        Z(i) == ZScore(Int2R(residuals[i]), residual_mean, residual_std)
        Hit(i) ==
            LET z == Z(i)
            IN  IF ZAbsGe(z, ResidualThreshold)
                   /\ SeverityIdx(StlSeverity(z)) >= MinSeverityIdx(severity_threshold)
                THEN <<StlAnomaly(sede, series, components, z, i)>>
                ELSE <<>>
    IN  IF TooShort(Len(sede_df)) THEN <<>>
        ELSE IF residual_std = Zero THEN <<>>
        ELSE Flatten([i \in DOMAIN series |-> Hit(i)])

\* A loop over the sedes that stops at the first sede with too few samples.
detect_anomalies_break(df, severity_threshold, outcome) ==
    LET sedes == Sedes(df)
    IN  Flatten([k \in DOMAIN sedes |->
            IF \E j \in 1..k : TooShort(Len(SedeRows(df, sedes[j]))) THEN <<>>
            ELSE StlSede(df, sedes[k], severity_threshold, outcome)])

\* STLAnomalyDetector.detect_anomalies: the returned list.
detect_anomalies(df, severity_threshold, outcome) ==
    LET sedes == Sedes(df)
    IN  Flatten([k \in DOMAIN sedes |->
            StlSede(df, sedes[k], severity_threshold, outcome)])

-----------------------------------------------------------------------------
(* ensemble_detector.py: the detectors                                     *)

\* features.prepare_full_feature_set: the rows of the frame the model sees.
\* add_lag_features, add_rolling_features and add_diff_features each sort by
\* (sede, timestamp) and renumber the rows; the feature columns themselves
\* are read by the pretrained model only.
prepare_full_feature_set(df) ==
    StableSort(df, [i \in DOMAIN df |->
                        <<IF df[i].sede = "A" THEN 1 ELSE 2, df[i].timestamp>>])

\* _run_isolation_forest, lines 182-190.
IfSeverity(score) ==
    LET abs_score == IF RLt(score, Zero) THEN RNeg(score) ELSE score
    IN  IF RGe(abs_score, Rat(3, 10)) THEN "critical"
        ELSE IF RGe(abs_score, Rat(2, 10)) THEN "high"
        ELSE IF RGe(abs_score, Rat(1, 10)) THEN "medium"
        ELSE "low"

\* _run_isolation_forest, lines 179-206: the dictionary appended for a
\* prediction of -1 at position i, with decision score `score`.
IfAnomaly(df, i, score) ==
    LET row == df[i]
        actual == Int2R(row.energia_total_kwh)
        mean == Mean(Energy(df))
    IN  [timestamp |-> row.timestamp,
         sede |-> row.sede,
         sector |-> "total",
         anomaly_type |-> "statistical_outlier",
         severity |-> IfSeverity(score),
         actual_value |-> actual,
         expected_value |-> mean,
         deviation_pct |-> RMul(RDiv(RSub(actual, mean), mean), Int2R(100)),
         recommendation |-> "statistical_outlier",
         potential_savings_kwh |-> Max0(RSub(actual, mean)),
         isolation_score |-> score,
         detection_method |-> "isolation_forest"]

\* _run_isolation_forest with the model loaded.  The pretrained model is
\* outside the repository: answer.flagged is the sequence of [i, score] of
\* the positions it predicts -1 for, in increasing position; answer.raises
\* says that the feature preparation or the model raised, which the
\* try/except of lines 157-212 turns into an empty list.  The positions are
\* those of the rows of prepare_full_feature_set(df); line 180 reads the row
\* of df at the same position.
run_isolation_forest(df, answer) ==
    IF answer.raises THEN <<>>
    ELSE [k \in DOMAIN answer.flagged |->
            IfAnomaly(df, answer.flagged[k].i, answer.flagged[k].score)]

-----------------------------------------------------------------------------
(* Input data: consumption records and the data frames built from them.    *)

Sites == {"A", "B"}

\* One reading at hour h counted from Monday 00:00.  Every frame carries
\* two of the five sector columns.
Row(sede, h, kwh, occupancy, festivo, periodo) ==
    [timestamp |-> h * 60,
     sede |-> sede,
     hora |-> h % 24,
     dia_semana |-> (h \div 24) % 7,
     energia_total_kwh |-> kwh,
     ocupacion_pct |-> occupancy,
     es_festivo |-> festivo,
     periodo_academico |-> periodo,
     sector |-> [comedor |-> kwh \div 2, oficinas |-> kwh - (kwh \div 2)]]

\* The length of a series long enough for the residual detector.
LongLen == SeasonalPeriod * 2

\* The position of the one deviating sample of the long profile (Tuesday 03:00).
SpikeAt == SeasonalPeriod + 4

\* The series of one sede, by profile name:
\*   none   no reading;
\*   flat   two equal readings (std = 0);
\*   mixed  Monday night, Monday noon, Saturday noon, occupancy missing;
\*   burst  one high night reading on a holiday in the vacation, low occupancy;
\*   long   LongLen hourly readings, all equal but one;
\*   nohora the readings of mixed in a frame that has no 'hora' column.
Profile(sede, p) ==
    IF p = "flat" THEN
        <<Row(sede, 3, 10, Int2R(80), FALSE, "semestre"),
          Row(sede, 12, 10, Int2R(80), FALSE, "semestre")>>
    ELSE IF p = "mixed" THEN
        <<Row(sede, 3, 4, NaN, FALSE, "semestre"),
          Row(sede, 12, 10, NaN, FALSE, "semestre"),
          Row(sede, 132, 5, NaN, FALSE, "semestre")>>
    ELSE IF p = "burst" THEN
        <<Row(sede, 3, 12, Int2R(10), TRUE, "vacaciones")>>
    ELSE IF p = "long" THEN
        [i \in 1..LongLen |->
            Row(sede, i - 1, IF i = SpikeAt THEN 12 ELSE 4, Int2R(80), FALSE, "semestre")]
    ELSE IF p = "nohora" THEN
        LET rows == <<Row(sede, 3, 4, NaN, FALSE, "semestre"),
                      Row(sede, 12, 10, NaN, FALSE, "semestre"),
                      Row(sede, 132, 5, NaN, FALSE, "semestre")>>
        IN  [i \in DOMAIN rows |-> [c \in DOMAIN rows[i] \ {"hora"} |-> rows[i][c]]]
    ELSE <<>>

\* A data frame is named by the profiles of its two sedes; the rows of A
\* come first.
Frame(id) == Profile("A", id[1]) \o Profile("B", id[2])

SeverityThresholds == {"none", "low", "medium", "high", "critical"}

DetectorNames == <<"rules", "stl", "isolation_forest">>

-----------------------------------------------------------------------------
(* The detector object and the calls made on it.  A call is one step: it   *)
(* leaves its arguments in `call` and its returned value in `result`; the  *)
(* caller then takes the result (Return) before the next call is made.     *)

NoCall == [op |-> "none"]

Idle == call = NoCall

Config == <<min_consensus, stl_detector, isolation_forest>>

Threads == <<refit, scan>>

\* No call is in progress on another thread.
NoThreads == refit = NoCall /\ scan = NoCall

\* The state __init__ leaves: no statistics, not fitted; the residual
\* detector is there when statsmodels is importable, the outlier model when
\* its file could be loaded.
Init ==
    /\ historical_stats = <<>>
    /\ is_fitted = FALSE
    /\ min_consensus \in {1, 2}
    /\ stl_detector \in BOOLEAN
    /\ isolation_forest \in BOOLEAN
    /\ call = NoCall
    /\ NoThreads
    /\ last = NoCall
    /\ all_anomalies = <<>>
    /\ result = <<>>

\* The caller takes the returned value.
Return ==
    /\ ~Idle
    /\ call' = NoCall
    /\ all_anomalies' = <<>>
    /\ result' = <<>>
    /\ UNCHANGED <<Config, Threads, last, historical_stats, is_fitted>>

\* EnsembleAnomalyDetector.fit
Fit(id) ==
    /\ Idle
    /\ historical_stats' =
            IF ComputeRaises(Frame(id)) THEN historical_stats
            ELSE compute_historical_stats(historical_stats, Frame(id))
    /\ is_fitted' = (IF ComputeRaises(Frame(id)) THEN is_fitted ELSE TRUE)
    /\ call' = [op |-> "fit", df |-> id, raised |-> ComputeRaises(Frame(id))]
    /\ result' = <<>>
    /\ UNCHANGED <<Config, Threads, last, all_anomalies>>

\* RulesBasedDetector.compute_historical_stats called on rules_detector
ComputeHistoricalStats(id) ==
    /\ Idle
    /\ historical_stats' =
            IF ComputeRaises(Frame(id)) THEN historical_stats
            ELSE compute_historical_stats(historical_stats, Frame(id))
    /\ call' = [op |-> "compute_historical_stats", df |-> id,
                raised |-> ComputeRaises(Frame(id))]
    /\ result' = <<>>
    /\ UNCHANGED <<Config, Threads, last, is_fitted, all_anomalies>>

\* A detect that fits on every dataset it is given.
StatsAfterRefit(stats, fitted, df) ==
    IF ComputeRaises(df) THEN stats ELSE compute_historical_stats(stats, df)

\* detect, lines 332-333: the statistics after the implicit fit.
StatsAfterFitCheck(stats, fitted, df) ==
    IF ~fitted THEN compute_historical_stats(stats, df) ELSE stats

\* detect, line 335: `detectors` = {} stands for None.
Wanted(detectors) == IF detectors = {} THEN Range(DetectorNames) ELSE detectors

\* _run_rules_detection: an exception of RulesBasedDetector.detect becomes
\* an empty list.
run_rules_detection(stats, df, severity_threshold) ==
    IF DetectRaises(stats, df) THEN <<>>
    ELSE to_dict_list(rules_detect(stats, df, severity_threshold))

\* The detectors whose exception was caught by their _run_ method.
Failed(stats, df, detectors, answer) ==
    {d \in Wanted(detectors) :
        \/ d = "rules" /\ DetectRaises(stats, df)
        \/ d = "isolation_forest" /\ isolation_forest /\ answer.raises}

\* A detect that runs the residual detector and the outlier model without
\* looking whether they are there.
RunDetectorsUnchecked(stats, df, severity_threshold, detectors, outcome, answer) ==
    (IF "rules" \in Wanted(detectors)
     THEN <<[name |-> "rules",
             anomalies |-> run_rules_detection(stats, df, severity_threshold)]>>
     ELSE <<>>)
    \o (IF "stl" \in Wanted(detectors)
        THEN <<[name |-> "stl",
                anomalies |-> detect_anomalies(df, severity_threshold, outcome)]>>
        ELSE <<>>)
    \o (IF "isolation_forest" \in Wanted(detectors)
        THEN <<[name |-> "isolation_forest",
                anomalies |-> run_isolation_forest(df, answer)]>>
        ELSE <<>>)

\* detect, lines 339-352: the mapping handed to the merger.
RunDetectors(stats, df, severity_threshold, detectors, outcome, answer) ==
    (IF "rules" \in Wanted(detectors)
     THEN <<[name |-> "rules",
             anomalies |-> run_rules_detection(stats, df, severity_threshold)]>>
     ELSE <<>>)
    \o (IF "stl" \in Wanted(detectors) /\ stl_detector
        THEN <<[name |-> "stl",
                anomalies |-> detect_anomalies(df, severity_threshold, outcome)]>>
        ELSE <<>>)
    \o (IF "isolation_forest" \in Wanted(detectors) /\ isolation_forest
        THEN <<[name |-> "isolation_forest",
                anomalies |-> run_isolation_forest(df, answer)]>>
        ELSE <<>>)

\* EnsembleAnomalyDetector.detect
\* An exception of the implicit fit (line 333) leaves detect at once.
Detect(id, severity_threshold, detectors, outcome, answer) ==
    LET df == Frame(id)
        fit_raises == ~is_fitted /\ ComputeRaises(df)
        fitted_stats == StatsAfterFitCheck(historical_stats, is_fitted, df)
        mapping == RunDetectors(fitted_stats, df, severity_threshold, detectors,
                                outcome, answer)
    IN  /\ Idle
        /\ historical_stats' =
                IF fit_raises THEN historical_stats
                ELSE IF "rules" \in Wanted(detectors) /\ ~DetectRaises(fitted_stats, df)
                THEN StatsForDetect(fitted_stats, df)
                ELSE fitted_stats
        /\ is_fitted' = (IF fit_raises THEN is_fitted ELSE TRUE)
        /\ all_anomalies' = (IF fit_raises THEN <<>> ELSE Tagged(mapping))
        /\ result' = (IF fit_raises THEN <<>> ELSE merge_anomalies(mapping, min_consensus))
        /\ call' = [op |-> "detect", df |-> id, severity_threshold |-> severity_threshold,
                    detectors |-> detectors, outcome |-> outcome, answer |-> answer,
                    raised |-> fit_raises,
                    failed |-> IF fit_raises THEN {}
                               ELSE Failed(fitted_stats, df, detectors, answer)]
        /\ UNCHANGED <<Config, Threads, last>>

\* A detect_realtime that hands out the entries of a merger.
RealtimeDictMerged(a) ==
    [timestamp |-> a.timestamp,
     sede |-> a.sede,
     sector |-> a.sector,
     anomaly_type |-> a.anomaly_type,
     severity |-> a.severity,
     actual_value |-> a.actual_value,
     expected_value |-> a.expected_value,
     deviation_pct |-> a.deviation_pct,
     recommendation |-> a.recommendation,
     potential_savings_kwh |-> a.potential_savings_kwh,
     consensus |-> 1,
     ensemble_score |-> Weight("rules"),
     detection_method |-> "ensemble"]

\* EnsembleAnomalyDetector.detect_realtime, lines 385-399: the dictionary of
\* one anomaly of the rules detector.
RealtimeDict(a) ==
    [timestamp |-> a.timestamp,
     sede |-> a.sede,
     sector |-> a.sector,
     anomaly_type |-> a.anomaly_type,
     severity |-> a.severity,
     actual_value |-> a.actual_value,
     expected_value |-> a.expected_value,
     deviation_pct |-> a.deviation_pct,
     recommendation |-> a.recommendation,
     potential_savings_kwh |-> a.potential_savings_kwh,
     detection_method |-> "rules_realtime"]

\* A detect_realtime that also learns the baseline of the site from the record.
DetectRealtimeLearning(record, sede) ==
    /\ Idle
    /\ result' = LET rules_anomalies == detect_for_record(historical_stats, record, sede)
                 IN  [i \in DOMAIN rules_anomalies |-> RealtimeDict(rules_anomalies[i])]
    /\ historical_stats' =
            compute_historical_stats(historical_stats, <<[record EXCEPT !.sede = sede]>>)
    /\ call' = [op |-> "detect_realtime", record |-> record, sede |-> sede,
                raised |-> FALSE]
    /\ UNCHANGED <<Config, Threads, last, is_fitted, all_anomalies>>

\* EnsembleAnomalyDetector.detect_realtime
DetectRealtime(record, sede) ==
    /\ Idle
    /\ result' = LET rules_anomalies == detect_for_record(historical_stats, record, sede)
                 IN  [i \in DOMAIN rules_anomalies |-> RealtimeDict(rules_anomalies[i])]
    /\ call' = [op |-> "detect_realtime", record |-> record, sede |-> sede,
                raised |-> FALSE]
    /\ UNCHANGED <<Config, Threads, last, historical_stats, is_fitted, all_anomalies>>

\* RulesBasedDetector.detect called on rules_detector
RulesDetect(id, severity_threshold) ==
    /\ Idle
    /\ historical_stats' =
            IF DetectRaises(historical_stats, Frame(id)) THEN historical_stats
            ELSE StatsForDetect(historical_stats, Frame(id))
    /\ result' =
            IF DetectRaises(historical_stats, Frame(id)) THEN <<>>
            ELSE rules_detect(historical_stats, Frame(id), severity_threshold)
    /\ call' = [op |-> "rules_detect", df |-> id, severity_threshold |-> severity_threshold,
                raised |-> DetectRaises(historical_stats, Frame(id))]
    /\ UNCHANGED <<Config, Threads, last, is_fitted, all_anomalies>>

\* RulesBasedDetector.detect_for_record called on rules_detector
DetectForRecord(record, sede) ==
    /\ Idle
    /\ result' = detect_for_record(historical_stats, record, sede)
    /\ call' = [op |-> "detect_for_record", record |-> record, sede |-> sede,
                raised |-> FALSE]
    /\ UNCHANGED <<Config, Threads, last, historical_stats, is_fitted, all_anomalies>>

-----------------------------------------------------------------------------
(* Spec: the calls on one EnsembleAnomalyDetector and its rules_detector.  *)

\* The data frames of the calls.
Frames ==
    {<<"flat", "none">>, <<"long", "none">>, <<"burst", "mixed">>,
     <<"flat", "mixed">>, <<"none", "none">>, <<"nohora", "none">>}

\* The records handed to the real-time path.
Records ==
    {Profile("A", "mixed")[1], Profile("A", "burst")[1], Profile("A", "long")[SpikeAt]}

\* The `detectors` arguments of detect.
DetectorChoices == {{}, {"rules"}, {"stl", "isolation_forest"}}

HasLongSede(df) ==
    \E s \in Range(Sedes(df)) : ~TooShort(Len(SedeRows(df, s)))

\* The outcomes of the STL fit that matter to a call: none when the residual
\* detector does not reach STL.
OutcomesFor(df, detectors) ==
    IF "stl" \in Wanted(detectors) /\ stl_detector /\ HasLongSede(df)
    THEN StlOutcomes ELSE {"min"}

\* What the pretrained model answers for a frame: nothing flagged, the first
\* position with a small score, the last one with a large score, or an
\* exception.
FlaggingsFor(df, detectors) ==
    IF "isolation_forest" \in Wanted(detectors) /\ isolation_forest /\ df # <<>>
    THEN {[raises |-> FALSE, flagged |-> <<>>],
          [raises |-> FALSE, flagged |-> <<[i |-> 1, score |-> Rat(-5, 100)]>>],
          [raises |-> FALSE, flagged |-> <<[i |-> Len(df), score |-> Rat(-25, 100)]>>],
          [raises |-> TRUE, flagged |-> <<>>]}
    ELSE {[raises |-> FALSE, flagged |-> <<>>]}

FitStep == \E id \in Frames : Fit(id)

ComputeStep == \E id \in Frames : ComputeHistoricalStats(id)

DetectStep ==
    \E id \in Frames, st \in {"none", "high"}, d \in DetectorChoices :
        \E o \in OutcomesFor(Frame(id), d), f \in FlaggingsFor(Frame(id), d) :
            Detect(id, st, d, o, f)

RealtimeStep == \E r \in Records, sede \in Sites : DetectRealtime(r, sede)

RulesDetectStep == \E id \in Frames, st \in {"none", "high"} : RulesDetect(id, st)

RecordStep == \E r \in Records, sede \in Sites : DetectForRecord(r, sede)

Next ==
    \/ FitStep
    \/ ComputeStep
    \/ DetectStep
    \/ RealtimeStep
    \/ RulesDetectStep
    \/ RecordStep
    \/ Return

Spec == Init /\ [][Next]_vars

-----------------------------------------------------------------------------
(* Claims about the baseline and the candidates, checked under Spec.       *)

DetectionOps == {"detect", "detect_realtime", "rules_detect", "detect_for_record"}

FitOps == {"fit", "compute_historical_stats"}

\* C5: no detection call (detect, detect_realtime, RulesBasedDetector.detect,
\* detect_for_record) computes or changes historical_stats or is_fitted.
C5_DetectionLeavesBaseline ==
    [][call'.op \in DetectionOps =>
          /\ historical_stats' = historical_stats
          /\ is_fitted' = is_fitted]_vars

\* C6: after fit(D) or compute_historical_stats(D) the sedes holding a
\* baseline are exactly the sedes of D, each baseline computed from D alone.
C6_FitReplacesWholesale ==
    call.op \in FitOps =>
        LET df == Frame(call.df)
        IN  /\ DOMAIN historical_stats = Range(Sedes(df))
            /\ \A s \in DOMAIN historical_stats :
                   historical_stats[s] = SedeStats(SedeRows(df, s))

\* potential_savings_kwh is not negative, and 0 when actual < expected.
SavingsClamped(a) ==
    /\ ~IsNaN(a.potential_savings_kwh)
    /\ RGe(a.potential_savings_kwh, Zero)
    /\ RLt(a.actual_value, a.expected_value) => a.potential_savings_kwh = Zero

\* C8: every candidate of every detector and every merged anomaly has
\* potential_savings_kwh >= 0, and 0 whenever actual < expected.
C8_SavingsNeverNegative ==
    /\ \A i \in DOMAIN result : SavingsClamped(result[i])
    /\ \A k \in DOMAIN all_anomalies :
           \A i \in DOMAIN all_anomalies[k].anomalies :
               SavingsClamped(all_anomalies[k].anomalies[i])

\* The anomaly is of type consumption_spike, alone or merged.
IsSpike(a) ==
    \/ a.anomaly_type = "consumption_spike"
    \/ "anomaly_types" \in DOMAIN a /\ "consumption_spike" \in Range(a.anomaly_types)

\* The sedes whose baseline has std = 0.
ZeroStdSedes == {s \in DOMAIN historical_stats : historical_stats[s].std = Zero}

\* C9: a sede whose baseline has std = 0 gets no consumption_spike candidate
\* from any detection call: rules batch mode, the real-time path, detect.
C9_NoSpikeOnZeroStd ==
    call.op \in DetectionOps =>
        /\ \A i \in DOMAIN result :
               result[i].sede \in ZeroStdSedes => ~IsSpike(result[i])
        /\ \A k \in DOMAIN all_anomalies :
               \A i \in DOMAIN all_anomalies[k].anomalies :
                   all_anomalies[k].anomalies[i].sede \in ZeroStdSedes
                       => ~IsSpike(all_anomalies[k].anomalies[i])

\* The entries of the mapping handed to the merger whose detector did not raise.
Remaining == SelectSeq(all_anomalies, LAMBDA e : e.name \notin call.failed)

\* C11: a detector that is not available or that raises while detect runs
\* it does not make detect raise: it contributes no candidate, and the result
\* is the merge, under min_consensus, of the candidates of the other detectors.
C11_FailedDetectorContributesNothing ==
    call.op = "detect" =>
        IF call.raised THEN call.failed = {} /\ all_anomalies = <<>>
        ELSE /\ \A k \in DOMAIN all_anomalies :
                  /\ all_anomalies[k].name = "stl" => stl_detector
                  /\ all_anomalies[k].name = "isolation_forest" => isolation_forest
                  /\ all_anomalies[k].name \in call.failed =>
                         all_anomalies[k].anomalies = <<>>
             /\ result = merge_anomalies(Remaining, min_consensus)

\* detect on a frame that makes the rules detector raise, the residual
\* detector missing: the result holds what the outlier model flagged.
C11_Witness ==
    /\ call.op = "detect"
    /\ ~call.raised
    /\ "rules" \in call.failed
    /\ ~stl_detector
    /\ result # <<>>

\* C12: a failure of the baseline computation during a call of the ensemble
\* (fit, or detect when it starts the computation itself, from line 333 or
\* from RulesBasedDetector.detect) is raised to the caller, whatever the
\* state of the detector.
C12_BaselineFailurePropagates ==
    [][/\ call'.op \in {"fit", "detect"}
       /\ ComputeRaises(Frame(call'.df))
       /\ \/ call'.op = "fit"
          \/ ~is_fitted
          \/ "rules" \in Wanted(call'.detectors) /\ DOMAIN historical_stats = {}
       => call'.raised]_vars

\* C13: in batch mode (RulesBasedDetector.detect) a site of the dataset that
\* has no fitted baseline gets no candidate and no baseline, whether another
\* site has a baseline or none has.
C13_BatchSkipsUnfittedSite ==
    [][call'.op = "rules_detect" /\ ~call'.raised
       => \A s \in Range(Sedes(Frame(call'.df))) :
             s \notin DOMAIN historical_stats
             => /\ s \notin DOMAIN historical_stats'
                /\ \A k \in DOMAIN result' : result'[k].sede # s]_vars

RealtimeOps == {"detect_realtime", "detect_for_record"}

\* C14: detect_for_record and detect_realtime called for a site that has no
\* baseline (also before any fit) return the empty list, do not raise, and
\* leave the baseline map and is_fitted as they were.
C14_RealtimeWithoutBaselineIsEmpty ==
    [][call'.op \in RealtimeOps /\ call'.sede \notin DOMAIN historical_stats
       => /\ result' = <<>>
          /\ ~call'.raised
          /\ historical_stats' = historical_stats
          /\ is_fitted' = is_fitted]_vars

C14_Witness ==
    /\ call.op \in RealtimeOps
    /\ call.sede \notin DOMAIN historical_stats
    /\ DOMAIN historical_stats # {}
    /\ detect_for_record(historical_stats, call.record,
                         CHOOSE s \in DOMAIN historical_stats : TRUE) # <<>>
    /\ result = <<>>

\* The rules of real-time mode that fire for the record of the call against
\* the statistics of its sede.
RulesFiring ==
    LET row == [call.record EXCEPT !.sede = call.sede]
        stats == historical_stats[call.sede]
    IN  IF call.sede \notin DOMAIN historical_stats THEN {}
        ELSE {t \in DOMAIN ANOMALY_RULES :
                \/ t = "off_hours_usage" /\ check_off_hours(row, stats) # <<>>
                \/ t = "weekend_anomaly" /\ check_weekend(row, stats) # <<>>
                \/ t = "consumption_spike" /\ check_spike(row, stats) # <<>>
                \/ t = "low_occupancy_high_consumption"
                        /\ check_low_occupancy(row, stats) # <<>>
                \/ t = "holiday_consumption" /\ check_holiday(row, stats) # <<>>}

\* C20: detect_realtime returns one entry per rule that fires for the
\* record, whatever min_consensus is; every entry has the detection method
\* 'rules_realtime' and none has a consensus or an ensemble_score.
C20_RealtimeIsUnmerged ==
    call.op = "detect_realtime" =>
        /\ Len(result) = Cardinality(RulesFiring)
        /\ {result[k].anomaly_type : k \in DOMAIN result} = RulesFiring
        /\ \A k \in DOMAIN result :
            /\ result[k].detection_method = "rules_realtime"
            /\ "consensus" \notin DOMAIN result[k]
            /\ "ensemble_score" \notin DOMAIN result[k]

C20_Witness ==
    /\ call.op = "detect_realtime"
    /\ min_consensus = 2
    /\ Len(result) = 1
    /\ result[1].detection_method = "rules_realtime"

\* What batch mode returns for the record of the call alone, with no minimum
\* severity, without the candidate of the vacation rule.
BatchForRecord ==
    SelectSeq(rules_detect(historical_stats,
                           <<[call.record EXCEPT !.sede = call.sede]>>, "none"),
              LAMBDA a : a.anomaly_type # "academic_vacation_high")

\* C21: for the same baseline and the same record, detect_for_record returns
\* the candidates batch detection returns for that record, the vacation
\* candidate left out, in the same order.
C21_RealtimeIsBatchWithoutVacation ==
    call.op = "detect_for_record" => result = BatchForRecord

\* C26: once a fit has produced a baseline for some site, the detection
\* calls (detect, detect_realtime, and the rules detector's own detect and
\* detect_for_record) leave the baseline map as it is, also for a dataset
\* with sites that have no baseline; the rules detector evaluates the
\* dataset against the statistics of the fit.
C26_FittedBaselineStays ==
    /\ [][is_fitted /\ DOMAIN historical_stats # {} /\ call'.op \in DetectionOps
          => historical_stats' = historical_stats]_vars
    /\ [](call.op = "detect" /\ ~call.raised /\ "rules" \in Wanted(call.detectors)
            /\ "rules" \notin call.failed
          => all_anomalies[1].anomalies =
                Tag("rules", to_dict_list(DetectLoop(historical_stats, Frame(call.df),
                                                     call.severity_threshold))))

\* A detect on a dataset with a site the fit never saw.
C26_Witness ==
    /\ call.op = "detect"
    /\ ~call.raised
    /\ "rules" \in Wanted(call.detectors)
    /\ DOMAIN historical_stats # {}
    /\ \E s \in Range(Sedes(Frame(call.df))) : s \notin DOMAIN historical_stats
    /\ all_anomalies[1].anomalies # <<>>

-----------------------------------------------------------------------------
(* SpecMerge: _merge_anomalies applied to a mapping of candidate lists.    *)

\* The number of candidates in one mapping, all detectors together.
MaxCands == 3

\* The shapes of the candidates: sede, timestamp in minutes (10:01, 10:59,
\* 11:00), severity, actual and expected value.
CandShapes ==
    {<<"A", 601, "low", 10, 5>>, <<"A", 601, "critical", 30, 5>>,
     <<"A", 659, "high", 20, 25>>, <<"A", 659, "medium", 12, 20>>,
     <<"A", 660, "low", 10, 20>>, <<"B", 601, "medium", 14, 5>>}

\* The dictionary a detector hands to the merger for one shape: the rules
\* detector's has a z_score and no detection_method.
Candidate(name, shape) ==
    LET actual == Int2R(shape[4])
        expected == Int2R(shape[5])
        type == IF name = "rules"
                THEN (IF shape[4] > shape[5] THEN "off_hours_usage" ELSE "weekend_anomaly")
                ELSE IF name = "stl"
                THEN (IF shape[4] > shape[5] THEN "consumption_spike" ELSE "consumption_drop")
                ELSE "statistical_outlier"
        common ==
            [timestamp |-> shape[2],
             sede |-> shape[1],
             sector |-> "total",
             anomaly_type |-> type,
             severity |-> shape[3],
             actual_value |-> actual,
             expected_value |-> expected,
             deviation_pct |-> RMul(RDiv(RSub(actual, expected), expected), Int2R(100)),
             recommendation |-> type,
             potential_savings_kwh |-> Max0(RSub(actual, expected))]
        extra == IF name = "rules" THEN [z_score |-> NoZ]
                 ELSE IF name = "stl" THEN [detection_method |-> "stl_decomposition"]
                 ELSE [detection_method |-> "isolation_forest"]
    IN  [f \in DOMAIN common \cup DOMAIN extra |->
            IF f \in DOMAIN common THEN common[f] ELSE extra[f]]

Candidates(name) == {Candidate(name, sh) : sh \in CandShapes}

InitMerge ==
    /\ historical_stats = <<>>
    /\ is_fitted = FALSE
    /\ min_consensus \in {1, 2, 3}
    /\ stl_detector = TRUE
    /\ isolation_forest = TRUE
    /\ call = NoCall
    /\ NoThreads
    /\ last = NoCall
    /\ result = <<>>
    /\ \E a, b, c \in 0..MaxCands :
        /\ a + b + c <= MaxCands
        /\ \E r \in [1..a -> Candidates("rules")], t \in [1..b -> Candidates("stl")],
              f \in [1..c -> Candidates("isolation_forest")] :
            all_anomalies = <<[name |-> "rules", anomalies |-> r],
                              [name |-> "stl", anomalies |-> t],
                              [name |-> "isolation_forest", anomalies |-> f]>>

\* EnsembleAnomalyDetector._merge_anomalies called with the mapping
\* all_anomalies, which it writes detected_by into.
MergeAnomalies ==
    /\ Idle
    /\ result' = merge_anomalies(all_anomalies, min_consensus)
    /\ all_anomalies' = Tagged(all_anomalies)
    /\ call' = [op |-> "merge_anomalies", all_anomalies |-> all_anomalies,
                raised |-> FALSE]
    /\ UNCHANGED <<Config, Threads, last, historical_stats, is_fitted>>

NextMerge == MergeAnomalies

SpecMerge == InitMerge /\ [][NextMerge]_vars

-----------------------------------------------------------------------------
(* Claims about the merger, checked under SpecMerge.                       *)

MergeDone == call.op = "merge_anomalies"

\* The candidates of the mapping passed to the merger, as [name, anomaly].
InputCands ==
    LET m == call.all_anomalies
    IN  {[name |-> m[k].name, anomaly |-> m[k].anomalies[i]] :
            <<k, i>> \in {<<k, i>> \in (DOMAIN m) \X (1..MaxCands) :
                            i \in DOMAIN m[k].anomalies}}

HourOf(ts) == ts \div 60

\* The candidates of the (sede, hour) group.
CandsOf(sede, hour) ==
    {c \in InputCands : c.anomaly.sede = sede /\ HourOf(c.anomaly.timestamp) = hour}

NamesOf(sede, hour) == {c.name : c \in CandsOf(sede, hour)}

InputKeys == {<<c.anomaly.sede, HourOf(c.anomaly.timestamp)>> : c \in InputCands}

IsMerged(a) == "consensus" \in DOMAIN a /\ a.detection_method = "ensemble"

\* The merged anomalies of the result.
MergedOut == {i \in DOMAIN result : IsMerged(result[i])}

\* The merged anomalies emitted for the (sede, hour) group.
MergedFor(sede, hour) ==
    {i \in MergedOut : result[i].sede = sede /\ HourOf(result[i].timestamp) = hour}

OrdinalOf(sev) == CHOOSE n \in 0..3 : <<"low", "medium", "high", "critical">>[n + 1] = sev

\* C1: the severity of every merged anomaly is the maximum, under
\* low < medium < high < critical, of the severities of the candidates of
\* its (sede, hour) group.
C1_MergedSeverityIsMax ==
    MergeDone =>
        \A i \in MergedOut :
            LET group == CandsOf(result[i].sede, HourOf(result[i].timestamp))
            IN  /\ \E c \in group : c.anomaly.severity = result[i].severity
                /\ \A c \in group :
                       OrdinalOf(c.anomaly.severity) <= OrdinalOf(result[i].severity)

\* A merged anomaly whose group holds three severities, the first candidate
\* not being the most severe.
C1_Witness ==
    /\ MergeDone
    /\ \E i \in MergedOut :
        LET group == CandsOf(result[i].sede, HourOf(result[i].timestamp))
        IN  /\ Cardinality({c.anomaly.severity : c \in group}) = 3
            /\ call.all_anomalies[1].anomalies # <<>>
            /\ call.all_anomalies[1].anomalies[1].sede = result[i].sede
            /\ HourOf(call.all_anomalies[1].anomalies[1].timestamp)
                   = HourOf(result[i].timestamp)
            /\ call.all_anomalies[1].anomalies[1].severity # result[i].severity

WeightOfSet(names) ==
    RSumSeq([k \in DOMAIN DetectorNames |->
                IF DetectorNames[k] \in names THEN Weight(DetectorNames[k]) ELSE Zero])

\* C3: the ensemble_score of every merged anomaly is the sum of the weights
\* of the distinct detectors of its detected_by list, each counted once.
C3_ScoreCountsDetectorsOnce ==
    MergeDone =>
        \A i \in MergedOut :
            result[i].ensemble_score = WeightOfSet(Range(result[i].detected_by))

\* C4: with min_consensus = 1 every candidate of a group fed by exactly one
\* detector is in the output as the original candidate, not as a merged
\* anomaly of detection_method 'ensemble'.
C4_SingletonPassesThrough ==
    MergeDone /\ min_consensus = 1 =>
        \A key \in InputKeys :
            Cardinality(NamesOf(key[1], key[2])) = 1 =>
                \A c \in CandsOf(key[1], key[2]) :
                    \E i \in DOMAIN result :
                        /\ ~IsMerged(result[i])
                        /\ result[i].timestamp = c.anomaly.timestamp
                        /\ result[i].sede = c.anomaly.sede
                        /\ result[i].sector = c.anomaly.sector
                        /\ result[i].anomaly_type = c.anomaly.anomaly_type
                        /\ result[i].actual_value = c.anomaly.actual_value
                        /\ result[i].expected_value = c.anomaly.expected_value

\* C16: the list the merger returns is in ascending order of timestamp, and
\* entries of one timestamp are in descending order of severity (critical,
\* high, medium, low).
C16_OutputOrdered ==
    MergeDone =>
        \A i, j \in DOMAIN result :
            i < j =>
                \/ result[i].timestamp < result[j].timestamp
                \/ /\ result[i].timestamp = result[j].timestamp
                   /\ OrdinalOf(result[i].severity) >= OrdinalOf(result[j].severity)

\* Two sites in one hour: the group of the site met first has the lower
\* severity and comes second in the result.
C16_Witness ==
    /\ MergeDone
    /\ call.all_anomalies[1].anomalies # <<>>
    /\ Len(result) >= 2
    /\ result[1].sede # call.all_anomalies[1].anomalies[1].sede
    /\ result[1].timestamp = result[2].timestamp
    /\ OrdinalOf(result[1].severity) > OrdinalOf(result[2].severity)

TypesOf(sede, hour) == {c.anomaly.anomaly_type : c \in CandsOf(sede, hour)}

\* C17: anomaly_types of a merged anomaly lists the anomaly types of the
\* candidates of its group, each of them once; and a group that the three
\* detectors flag is emitted, with consensus 3, whatever its types.
C17_TypesAreTheGroupsTypes ==
    MergeDone =>
        /\ \A i \in MergedOut :
            LET types == TypesOf(result[i].sede, HourOf(result[i].timestamp))
            IN  /\ Range(result[i].anomaly_types) = types
                /\ Len(result[i].anomaly_types) = Cardinality(types)
        /\ \A key \in InputKeys :
            Cardinality(NamesOf(key[1], key[2])) = 3 =>
                \E i \in MergedFor(key[1], key[2]) : result[i].consensus = 3

C17_Witness ==
    /\ MergeDone
    /\ \E i \in MergedOut :
        /\ result[i].consensus = 3
        /\ Len(result[i].anomaly_types) = 3
        /\ result[i].anomaly_type = "multi_type"

\* The candidates of the mapping in the order the merger meets them.
InputSeq ==
    LET m == call.all_anomalies
    IN  Flatten([k \in DOMAIN m |->
            [i \in DOMAIN m[k].anomalies |->
                [name |-> m[k].name, anomaly |-> m[k].anomalies[i]]]])

\* Those of one site and one calendar hour.
SeqOf(sede, hour) ==
    SelectSeq(InputSeq,
              LAMBDA c : c.anomaly.sede = sede /\ HourOf(c.anomaly.timestamp) = hour)

C23_MergerLeavesInputAlone ==
    [][call'.op = "merge_anomalies" => all_anomalies' = all_anomalies]_vars

-----------------------------------------------------------------------------
(* SpecStl: the calls on one STLAnomalyDetector.                           *)

\* How far the lengths of the series go on each side of 2 * seasonal_period.
StlMargin == 1

StlLengths == {0, 2} \cup ((LongLen - StlMargin)..(LongLen + StlMargin))

\* A series is named by its length and the value of its last sample; the
\* other samples are 4 kWh.
StlShapes == {<<n, v>> : n \in StlLengths, v \in {4, 12, 1}} \ {<<0, 12>>, <<0, 1>>}

\* A series of full length whose last k samples have the value v, named
\* <<LongLen, v, k>>: k = 2, 3, 4 put the z-score of those samples in the
\* tiers high, medium and low, k = 5 below the residual threshold.
SpikeShapes == {<<LongLen, v, k>> : v \in {12, 1}, k \in 2..5}

\* The number of samples at the end of the series that have the shape's value.
TailLen(shape) == IF Len(shape) = 3 THEN shape[3] ELSE 1

\* The hourly rows of one sede.
Hourly(sede, shape) ==
    [i \in 1..shape[1] |->
        Row(sede, i - 1, IF i > shape[1] - TailLen(shape) THEN shape[2] ELSE 4,
            Int2R(80), FALSE, "semestre")]

\* A data frame of the two sedes, the rows of `first` before those of the other.
StlFrame(id) ==
    IF id.first = "A" THEN Hourly("A", id.a) \o Hourly("B", id.b)
    ELSE Hourly("B", id.b) \o Hourly("A", id.a)

StlFrameIds == [first : Sites, a : StlShapes, b : StlShapes]

InitStl ==
    /\ historical_stats = <<>>
    /\ is_fitted = FALSE
    /\ min_consensus = 2
    /\ stl_detector = TRUE
    /\ isolation_forest = FALSE
    /\ call = NoCall
    /\ NoThreads
    /\ last = NoCall
    /\ all_anomalies = <<>>
    /\ result = <<>>

\* STLAnomalyDetector.decompose
Decompose(shape, outcome) ==
    /\ Idle
    /\ result' = decompose(Series(Hourly("A", shape)), outcome)
    /\ call' = [op |-> "decompose", series |-> shape, outcome |-> outcome,
                raised |-> FALSE]
    /\ UNCHANGED <<Config, Threads, last, historical_stats, is_fitted, all_anomalies>>

\* STLAnomalyDetector.detect_anomalies
DetectAnomalies(id, severity_threshold, outcome) ==
    /\ Idle
    /\ result' = detect_anomalies(StlFrame(id), severity_threshold, outcome)
    /\ call' = [op |-> "detect_anomalies", df |-> id,
                severity_threshold |-> severity_threshold, outcome |-> outcome,
                raised |-> FALSE]
    /\ UNCHANGED <<Config, Threads, last, historical_stats, is_fitted, all_anomalies>>

DecomposeStep == \E sh \in StlShapes, o \in StlOutcomes : Decompose(sh, o)

DetectAnomaliesStep ==
    \E id \in StlFrameIds, st \in {"none", "high"}, o \in StlOutcomes :
        DetectAnomalies(id, st, o)

DetectSpikesStep ==
    \E sh \in SpikeShapes, st \in SeverityThresholds, o \in StlOutcomes :
        DetectAnomalies([first |-> "A", a |-> sh, b |-> <<0, 4>>], st, o)

NextStl ==
    \/ DecomposeStep
    \/ DetectAnomaliesStep
    \/ DetectSpikesStep
    \/ Return

SpecStl == InitStl /\ [][NextStl]_vars

\* The anomalies of the result that are about the sede.
ResultOf(sede) == SelectSeq(result, LAMBDA a : a.sede = sede)

\* C10: for a series of fewer than 2 * seasonal_period samples decompose
\* returns trend = the series, seasonal = 0 and residual = 0; detect_anomalies
\* returns no anomaly for a sede with such a series and, for every other sede
\* of the data frame, the anomalies it returns for that sede alone.
C10_ShortSeriesFallback ==
    /\ call.op = "decompose" /\ call.series[1] < 2 * SeasonalPeriod =>
        LET rows == Hourly("A", call.series)
        IN  /\ result.trend = [i \in DOMAIN rows |-> rows[i].energia_total_kwh]
            /\ result.seasonal = [i \in DOMAIN rows |-> 0]
            /\ result.residual = [i \in DOMAIN rows |-> 0]
    /\ call.op = "detect_anomalies" =>
        \A sede \in Sites :
            LET shape == IF sede = "A" THEN call.df.a ELSE call.df.b
            IN  IF shape[1] < 2 * SeasonalPeriod THEN ResultOf(sede) = <<>>
                ELSE ResultOf(sede) =
                        detect_anomalies(Hourly(sede, shape), call.severity_threshold,
                                         call.outcome)

\* detect_anomalies on a frame whose first sede is one sample short of
\* 2 * seasonal_period and ends in a high reading, and whose second sede is
\* long enough: anomalies for the second sede, none for the first.
C10_Witness ==
    /\ call.op = "detect_anomalies"
    /\ call.df.first = "A"
    /\ call.df.a = <<2 * SeasonalPeriod - 1, 12>>
    /\ call.df.b[1] >= 2 * SeasonalPeriod
    /\ ResultOf("A") = <<>>
    /\ ResultOf("B") # <<>>

-----------------------------------------------------------------------------
(* SpecConc: compute_historical_stats running on one thread while          *)
(* detection calls run on another, on the same RulesBasedDetector.  The    *)
(* code takes no lock; a step of the refit is one assignment into          *)
(* self.historical_stats, a step of a detection is the evaluation of one   *)
(* sede against the entry it fetches.                                      *)

\* The data frames of the concurrent calls.
ConcFrames == {<<"flat", "mixed">>, <<"burst", "mixed">>, <<"mixed", "none">>}

\* The sector columns of the frame, in the order of lines 223-229.
SectorCols(sede_df) == SelectSeq(SectorNames, LAMBDA c : c \in Columns(sede_df))

InitConc ==
    /\ historical_stats \in
          {<<>>} \cup {compute_historical_stats(<<>>, Frame(id)) : id \in ConcFrames}
    /\ is_fitted = FALSE
    /\ min_consensus = 2
    /\ stl_detector = FALSE
    /\ isolation_forest = FALSE
    /\ call = NoCall
    /\ all_anomalies = <<>>
    /\ result = <<>>
    /\ NoThreads
    /\ last = NoCall

\* compute_historical_stats is called: the loop of line 183 is at its first sede.
RefitBegin(id) ==
    /\ refit = NoCall
    /\ refit' = [op |-> "compute_historical_stats", df |-> id,
                 pre |-> historical_stats, k |-> 1, step |-> 0]
    /\ UNCHANGED <<Config, last, historical_stats, is_fitted, call, all_anomalies, result, scan>>

RefitRunning ==
    /\ refit # NoCall
    /\ refit.k <= Len(Sedes(Frame(refit.df)))

\* The position after one more assignment for a sede with n sector columns.
RefitAdvance(n) ==
    IF refit.step = 2 * n THEN [refit EXCEPT !.k = @ + 1, !.step = 0]
    ELSE [refit EXCEPT !.step = @ + 1]

\* Lines 186-220: self.historical_stats[sede] = {...}
RefitOverall ==
    LET df == Frame(refit.df)
        sede == Sedes(df)[refit.k]
        sede_df == SedeRows(df, sede)
    IN  /\ RefitRunning
        /\ refit.step = 0
        /\ historical_stats' =
              [s \in DOMAIN historical_stats \cup {sede} |->
                  IF s = sede THEN OverallStats(sede_df) ELSE historical_stats[s]]
        /\ refit' = RefitAdvance(Len(SectorCols(sede_df)))
        /\ UNCHANGED <<Config, last, is_fitted, call, all_anomalies, result, scan>>

\* Lines 231-232: one of the two assignments of one sector column, into the
\* entry the dictionary holds for the sede at that moment.
RefitSector ==
    LET df == Frame(refit.df)
        sede == Sedes(df)[refit.k]
        sede_df == SedeRows(df, sede)
        cols == SectorCols(sede_df)
        c == cols[(refit.step + 1) \div 2]
        old == historical_stats[sede].sector
        value == IF refit.step % 2 = 1 THEN [mean |-> SectorStats(sede_df, c).mean]
                 ELSE [mean |-> old[c].mean, std |-> SectorStats(sede_df, c).std]
    IN  /\ RefitRunning
        /\ refit.step > 0
        /\ historical_stats' =
              [historical_stats EXCEPT ![sede].sector =
                  [x \in DOMAIN old \cup {c} |-> IF x = c THEN value ELSE old[x]]]
        /\ refit' = RefitAdvance(Len(cols))
        /\ UNCHANGED <<Config, last, is_fitted, call, all_anomalies, result, scan>>

\* The entry self.historical_stats.get(sede, {}) returns; <<>> stands for {}.
StatsGet(stats, sede) == IF sede \in DOMAIN stats THEN stats[sede] ELSE <<>>

\* RulesBasedDetector.detect is called: lines 503-505, then the loop of line
\* 511 is at its first sede.
ScanDetect(id, severity_threshold) ==
    /\ scan = NoCall
    /\ historical_stats' = StatsForDetect(historical_stats, Frame(id))
    /\ scan' = [op |-> "rules_detect", df |-> id,
                severity_threshold |-> severity_threshold,
                sedes |-> Sedes(Frame(id)), k |-> 1, observed |-> <<>>,
                wrote |-> DOMAIN historical_stats = {}]
    /\ result' = <<>>
    /\ UNCHANGED <<Config, last, is_fitted, call, all_anomalies, refit>>

\* Lines 512-534: the entry of one sede is fetched and its rows are checked.
ScanSede ==
    /\ scan # NoCall
    /\ scan.op = "rules_detect"
    /\ scan.k <= Len(scan.sedes)
    /\ LET sede == scan.sedes[scan.k]
       IN  /\ result' = result \o DetectLoop(historical_stats,
                                             SedeRows(Frame(scan.df), sede),
                                             scan.severity_threshold)
           /\ scan' = [scan EXCEPT !.k = @ + 1,
                                   !.observed = Append(@,
                                        [sede |-> sede,
                                         stats |-> StatsGet(historical_stats, sede)])]
    /\ UNCHANGED <<Config, last, historical_stats, is_fitted, call, all_anomalies, refit>>

\* RulesBasedDetector.detect_for_record: one fetch, lines 556-572.
ScanRecord(record, sede) ==
    /\ scan = NoCall
    /\ result' = detect_for_record(historical_stats, record, sede)
    /\ scan' = [op |-> "detect_for_record", record |-> record, sedes |-> <<sede>>,
                k |-> 2, wrote |-> FALSE,
                observed |-> <<[sede |-> sede,
                                stats |-> StatsGet(historical_stats, sede)]>>]
    /\ UNCHANGED <<Config, last, historical_stats, is_fitted, call, all_anomalies, refit>>

ScanDone == scan # NoCall /\ scan.k > Len(scan.sedes)

\* The detection call returns.
ScanReturn ==
    /\ ScanDone
    /\ scan' = NoCall
    /\ result' = <<>>
    /\ UNCHANGED <<Config, last, historical_stats, is_fitted, call, all_anomalies, refit>>

RefitBeginStep == \E id \in ConcFrames : RefitBegin(id)

ScanDetectStep == \E id \in ConcFrames, st \in {"none", "high"} : ScanDetect(id, st)

ScanRecordStep == \E r \in Records, sede \in Sites : ScanRecord(r, sede)

NextConc ==
    \/ RefitBeginStep
    \/ RefitOverall
    \/ RefitSector
    \/ ScanDetectStep
    \/ ScanSede
    \/ ScanRecordStep
    \/ ScanReturn

SpecConc == InitConc /\ [][NextConc]_vars

\* The baseline before the refit and the one the refit leaves.
PreRefit == IF refit = NoCall THEN historical_stats ELSE refit.pre

PostRefit ==
    IF refit = NoCall THEN historical_stats
    ELSE compute_historical_stats(refit.pre, Frame(refit.df))

\* C7: a detection running while compute_historical_stats recomputes an
\* existing baseline evaluates every sede against the baseline as it was
\* before the refit, or every sede against the baseline the refit leaves,
\* never a mixture of the two nor an entry still without its sector
\* statistics; and it does not write to the baseline.
C7_DetectionSeesOneSnapshot ==
    ScanDone /\ refit # NoCall /\ DOMAIN refit.pre # {} =>
        /\ ~scan.wrote
        /\ \/ \A i \in DOMAIN scan.observed :
                 scan.observed[i].stats = StatsGet(PreRefit, scan.observed[i].sede)
           \/ \A i \in DOMAIN scan.observed :
                 scan.observed[i].stats = StatsGet(PostRefit, scan.observed[i].sede)


-----------------------------------------------------------------------------
(* SpecRepeat: calls made one after the other on one detector, each        *)
(* remembered (its arguments, what it returned) when the next one is made. *)
(* The answers of statsmodels and of the pretrained model are arguments of *)
(* a call: the libraries compute them from the dataset alone.               *)

RepeatFrames == {<<"burst", "mixed">>, <<"none", "none">>, <<"nohora", "none">>}

RepeatChoices == {{}, {"rules"}}

\* The caller takes the returned value and keeps it.
Remember ==
    /\ ~Idle
    /\ last' = [call |-> call, result |-> result]
    /\ call' = NoCall
    /\ all_anomalies' = <<>>
    /\ result' = <<>>
    /\ UNCHANGED <<Config, Threads, historical_stats, is_fitted>>

RepeatFitStep == \E id \in RepeatFrames : Fit(id)

RepeatDetectStep ==
    \E id \in RepeatFrames, d \in RepeatChoices :
        \E o \in OutcomesFor(Frame(id), d), f \in FlaggingsFor(Frame(id), d) :
            Detect(id, "none", d, o, f)

NextRepeat ==
    \/ RepeatFitStep
    \/ RepeatDetectStep
    \/ RealtimeStep
    \/ RecordStep
    \/ Remember

SpecRepeat == Init /\ [][NextRepeat]_vars

\* The arguments of a call: everything in its record but what it produced.
SameInput(c, d) ==
    /\ c.op = d.op
    /\ IF c.op = "detect"
       THEN /\ c.df = d.df
            /\ c.severity_threshold = d.severity_threshold
            /\ c.detectors = d.detectors
            /\ c.outcome = d.outcome
            /\ c.answer = d.answer
       ELSE /\ c.record = d.record
            /\ c.sede = d.sede

Repeated ==
    /\ call.op \in {"detect", "detect_realtime", "detect_for_record"}
    /\ last # NoCall
    /\ SameInput(call, last.call)

\* C15: a detection call that repeats the call before it (detect_for_record
\* or detect_realtime on the same record and site, detect on the same
\* dataset with the same arguments) returns the same list: same candidates,
\* same order, same field values, and it raises iff the first one did.
C15_RepeatedCallReturnsTheSame ==
    Repeated => result = last.result /\ call.raised = last.call.raised

C15_Witness ==
    /\ Repeated
    /\ call.op = "detect"
    /\ Len(result) >= 2


-----------------------------------------------------------------------------
(* SpecRules: the severity assignment and the off-hours check of the rules *)
(* engine, called on ratios, records and statistics of bounded sets.       *)

\* Deviation ratios and z-scores, in hundredths: the cutoffs of the tables,
\* values between them, and the results of a division by zero.
Ratios ==
    {Pct(n) : n \in {0, 30, 35, 40, 45, 50, 55, 60, 70, 74, 75, 80, 85, 99, 100,
                     120, 150, 300, 350, 400, 500, 600, 700}}
    \cup {NaN, Rat(1, 0)}

\* energia_total_kwh of the record.
Energies == {0, 30, 35, 36, 50, 75, 80, 100, 120}

\* working_hours_mean and non_working_mean of the baseline; NaN is the mean
\* of no rows.
Means == {Int2R(100), Int2R(50), Int2R(0), NaN}

\* The datasets handed to batch detection.
RuleFrames == {<<"burst", "mixed">>, <<"flat", "mixed">>, <<"long", "none">>}

InitRules ==
    /\ historical_stats = <<>>
    /\ is_fitted = FALSE
    /\ min_consensus = 2
    /\ stl_detector = FALSE
    /\ isolation_forest = FALSE
    /\ call = NoCall
    /\ NoThreads
    /\ last = NoCall
    /\ all_anomalies = <<>>
    /\ result = <<>>

\* RulesBasedDetector._get_severity called with a ratio and a table.
GetSeverity(deviation_ratio, thresholds) ==
    /\ Idle
    /\ result' = <<get_severity(RatioZ(deviation_ratio), thresholds)>>
    /\ call' = [op |-> "get_severity", deviation_ratio |-> deviation_ratio,
                thresholds |-> thresholds, raised |-> FALSE]
    /\ UNCHANGED <<Config, Threads, last, historical_stats, is_fitted, all_anomalies>>

\* RulesBasedDetector._check_off_hours called with a record and the
\* statistics of its sede.
CheckOffHours(row, stats) ==
    /\ Idle
    /\ result' = check_off_hours(row, stats)
    /\ call' = [op |-> "check_off_hours", row |-> row, stats |-> stats,
                raised |-> FALSE]
    /\ UNCHANGED <<Config, Threads, last, historical_stats, is_fitted, all_anomalies>>

NextRules ==
    \/ \E r \in Ratios, rule \in DOMAIN ANOMALY_RULES :
            GetSeverity(r, ANOMALY_RULES[rule].severity_thresholds)
    \/ \E h \in 0..23, x \in Energies, W \in Means, N \in Means :
            CheckOffHours(Row("A", h, x, NaN, FALSE, "semestre"),
                          [mean |-> W, working_hours_mean |-> W, non_working_mean |-> N])
    \/ \E id \in RuleFrames, st \in SeverityThresholds : RulesDetect(id, st)
    \/ Return

SpecRules == InitRules /\ [][NextRules]_vars

\* The tiers above low whose cutoff the ratio reaches.
TiersMet(ratio, thresholds) ==
    {t \in {"medium", "high", "critical"} : RGe(ratio, thresholds[t])}

\* The highest of them, low when there is none.
TierOf(ratio, thresholds) ==
    IF TiersMet(ratio, thresholds) = {} THEN "low"
    ELSE CHOOSE t \in TiersMet(ratio, thresholds) :
            \A u \in TiersMet(ratio, thresholds) : OrdinalOf(u) <= OrdinalOf(t)

\* C18: _get_severity returns the highest tier among medium, high and
\* critical whose cutoff is at most the ratio, and low when there is none; a
\* ratio equal to a cutoff gets the tier of that cutoff.  The tier depends
\* on the ratio and the table alone.
C18_SeverityIsHighestTierMet ==
    call.op = "get_severity" =>
        result = <<TierOf(call.deviation_ratio, call.thresholds)>>

C18_Witness ==
    /\ call.op = "get_severity"
    /\ call.deviation_ratio = call.thresholds.high
    /\ result = <<"high">>

OffHours == {22, 23, 0, 1, 2, 3, 4, 5}

\* C19: the off-hours check emits one candidate iff the hour of the record
\* is one of 22, 23, 0..5 and its energy is above 0.35 times the
\* working-hours mean, and no candidate otherwise; the candidate's expected
\* value is the non-working-hours mean and its severity is the tier of
\* energy / working-hours mean in the table of the rule.
C19_OffHoursRule ==
    call.op = "check_off_hours" =>
        LET x == Int2R(call.row.energia_total_kwh)
            W == call.stats.working_hours_mean
            fires == /\ call.row.hora \in OffHours
                     /\ RGt(x, RMul(Rat(35, 100), W))
        IN  /\ Len(result) = (IF fires THEN 1 ELSE 0)
            /\ fires =>
                /\ result[1].anomaly_type = "off_hours_usage"
                /\ result[1].expected_value = call.stats.non_working_mean
                /\ result[1].severity =
                        TierOf(RDiv(x, W), ANOMALY_RULES.off_hours_usage.severity_thresholds)

\* 80 kWh at 03:00 against a working-hours mean of 100: the tier of 0.80.
C19_Witness ==
    /\ call.op = "check_off_hours"
    /\ call.row.hora = 3
    /\ call.row.energia_total_kwh = 80
    /\ call.stats.working_hours_mean = Int2R(100)
    /\ Len(result) = 1
    /\ result[1].severity = "high"


\* The rank of a minimum severity; None is below every severity.
RankOfThreshold(st) == IF st = "none" THEN 0 ELSE OrdinalOf(st)

\* C24: batch detection with a minimum severity s returns the candidates of
\* batch detection without a minimum whose severity is at least s, in the
\* same order; a candidate of severity s is kept.
C24_MinimumSeverityFilters ==
    [][call'.op = "rules_detect" /\ ~call'.raised
       => result' = SelectSeq(rules_detect(historical_stats, Frame(call'.df), "none"),
                        LAMBDA a : OrdinalOf(a.severity)
                                     >= RankOfThreshold(call'.severity_threshold))]_vars

C24_Witness ==
    /\ call.op = "rules_detect"
    /\ call.severity_threshold \notin {"none", "low"}
    /\ \E k \in DOMAIN result : result[k].severity = call.severity_threshold
    /\ \E k \in DOMAIN result : result[k].severity # call.severity_threshold
    /\ Len(result) < Len(rules_detect(historical_stats, Frame(call.df), "none"))


\* |z| >= n / 2 for a sample at distance d from the mean of residuals of
\* variance var: d^2 >= (n / 2)^2 * var.
AbsZAtLeast(d, var, n) == RGe(RMul(d, d), RMul(Rat(n * n, 4), var))

TierOfSample(d, var) ==
    IF AbsZAtLeast(d, var, 10) THEN "critical"
    ELSE IF AbsZAtLeast(d, var, 8) THEN "high"
    ELSE IF AbsZAtLeast(d, var, 7) THEN "medium"
    ELSE "low"

\* C25: for a series long enough whose residuals have a non-zero standard
\* deviation, detect_anomalies emits a candidate for a sample iff its |z| is
\* at least 3 and its severity passes the minimum of the call; the candidate
\* is a spike when z > 0 and a drop when z < 0, critical for |z| >= 5, high
\* for |z| >= 4, medium for |z| >= 3.5 and low otherwise.
C25_ResidualRule ==
    call.op = "detect_anomalies" =>
        \A sede \in Sites :
            LET shape == IF sede = "A" THEN call.df.a ELSE call.df.b
                rows == Hourly(sede, shape)
                r == decompose(Series(rows), call.outcome).residual
                mean == Mean(r)
                var == Variance(r)
                dist == [i \in DOMAIN r |-> RSub(Int2R(r[i]), mean)]
                tier == [i \in DOMAIN r |-> TierOfSample(dist[i], var)]
                due == {i \in DOMAIN r :
                            /\ AbsZAtLeast(dist[i], var, 6)
                            /\ OrdinalOf(tier[i]) >= RankOfThreshold(call.severity_threshold)}
                out == ResultOf(sede)
            IN  shape[1] >= 2 * SeasonalPeriod /\ var # Zero =>
                    /\ Len(out) = Cardinality(due)
                    /\ \A i \in due :
                        \E k \in DOMAIN out :
                            /\ out[k].timestamp = rows[i].timestamp
                            /\ out[k].severity = tier[i]
                            /\ out[k].anomaly_type =
                                    (IF dist[i].num > 0 THEN "consumption_spike"
                                     ELSE "consumption_drop")

\* Four low samples at the end of the series: drops of the lowest tier.
C25_Witness ==
    /\ call.op = "detect_anomalies"
    /\ call.severity_threshold = "low"
    /\ Len(result) = 4
    /\ \A k \in DOMAIN result :
        result[k].severity = "low" /\ result[k].anomaly_type = "consumption_drop"


-----------------------------------------------------------------------------
(* SpecIf: the adapter of the outlier model called on the frames made of   *)
(* three records in every row order, with every answer of the model that   *)
(* flags one or two feature rows.                                          *)

IfRows ==
    <<Row("A", 3, 4, Int2R(80), FALSE, "semestre"),
      Row("A", 12, 10, Int2R(80), FALSE, "semestre"),
      Row("B", 3, 7, Int2R(80), FALSE, "semestre")>>

\* A frame is named by the order of its rows.
IfOrders == {p \in [1..3 -> 1..3] : \A i, j \in 1..3 : i # j => p[i] # p[j]}

IfFrame(p) == [k \in 1..3 |-> IfRows[p[k]]]

IfScores == {Rat(-n, 100) : n \in {5, 10, 15, 25, 35}}

IfAnswers ==
    {[raises |-> FALSE, flagged |-> <<>>], [raises |-> TRUE, flagged |-> <<>>]}
    \cup {[raises |-> FALSE, flagged |-> <<[i |-> i, score |-> sc]>>] :
            i \in 1..3, sc \in IfScores}
    \cup {[raises |-> FALSE,
           flagged |-> <<[i |-> i, score |-> Rat(-5, 100)],
                         [i |-> j, score |-> Rat(-25, 100)]>>] :
            <<i, j>> \in {<<1, 2>>, <<1, 3>>, <<2, 3>>}}

InitIf ==
    /\ historical_stats = <<>>
    /\ is_fitted = FALSE
    /\ min_consensus = 2
    /\ stl_detector = FALSE
    /\ isolation_forest = TRUE
    /\ call = NoCall
    /\ NoThreads
    /\ last = NoCall
    /\ all_anomalies = <<>>
    /\ result = <<>>

\* EnsembleAnomalyDetector._run_isolation_forest
RunIsolationForest(p, answer) ==
    /\ Idle
    /\ isolation_forest
    /\ result' = run_isolation_forest(IfFrame(p), answer)
    /\ call' = [op |-> "run_isolation_forest", df |-> p, answer |-> answer,
                raised |-> FALSE]
    /\ UNCHANGED <<Config, Threads, last, historical_stats, is_fitted, all_anomalies>>

NextIf ==
    \/ \E p \in IfOrders, answer \in IfAnswers : RunIsolationForest(p, answer)
    \/ Return

SpecIf == InitIf /\ [][NextIf]_vars

\* C27: each candidate of the adapter reports the timestamp, the site and
\* the actual value of the record whose feature row the model flagged,
\* whatever the order of the rows of the dataset.
C27_CandidateIsTheFlaggedRecord ==
    call.op = "run_isolation_forest" =>
        /\ Len(result) = Len(call.answer.flagged)
        /\ \A k \in DOMAIN result :
            LET flagged == prepare_full_feature_set(IfFrame(call.df))[call.answer.flagged[k].i]
            IN  /\ result[k].timestamp = flagged.timestamp
                /\ result[k].sede = flagged.sede
                /\ result[k].actual_value = Int2R(flagged.energia_total_kwh)


-----------------------------------------------------------------------------
(* The minimum severity and the consensus in EnsembleAnomalyDetector.detect *)
(* (claims checked under Spec).                                             *)

\* C28: every anomaly detect returns has a severity of at least the minimum
\* severity of the call.
C28_DetectRespectsMinimumSeverity ==
    call.op = "detect" =>
        \A k \in DOMAIN result :
            OrdinalOf(result[k].severity) >= RankOfThreshold(call.severity_threshold)

\* What detect returns for the dataset and the detectors of the call, with the
\* same answers of the libraries, when no minimum severity is given.
DetectWithoutMinimum ==
    merge_anomalies(RunDetectors(historical_stats, Frame(call.df), "none",
                                 call.detectors, call.outcome, call.answer),
                    min_consensus)

\* C29: the minimum severity filters the merged output: detect with a
\* minimum s returns the anomalies detect returns without a minimum whose
\* severity is at least s, unchanged.
C29_MinimumFiltersMergedOutput ==
    call.op = "detect" /\ ~call.raised =>
        result = SelectSeq(DetectWithoutMinimum,
                    LAMBDA a : OrdinalOf(a.severity)
                                 >= RankOfThreshold(call.severity_threshold))


\* The detectors that run in the detect of the call: asked for, and there.
Running ==
    {d \in Wanted(call.detectors) :
        \/ d = "rules"
        \/ d = "stl" /\ stl_detector
        \/ d = "isolation_forest" /\ isolation_forest}

\* C30: when fewer detectors run in detect than min_consensus asks for,
\* detect returns the empty list, whatever the detectors found.
C30_TooFewDetectorsReportNothing ==
    call.op = "detect" /\ Cardinality(Running) < min_consensus => result = <<>>

\* min_consensus = 2 and the rules detector alone, which found something.
C30_Witness ==
    /\ call.op = "detect"
    /\ ~call.raised
    /\ min_consensus = 2
    /\ Running = {"rules"}
    /\ all_anomalies[1].anomalies # <<>>
    /\ result = <<>>

====
